---- MODULE Spec2Model ----
(***************************************************************************)
(* vue-component-docgen (src/index.js): one run of the documentation       *)
(* generator as a state machine, plus the two pure string functions        *)
(* formatType and escapeHtml under specifications of their own.            *)
(*                                                                         *)
(* JavaScript values:                                                      *)
(*   - an object is a function from its own keys to values, so a key the   *)
(*     object does not have is absent from its DOMAIN;                     *)
(*   - undefined is the string Undefined, null is the record Null;         *)
(*   - text the code only concatenates is a TLA+ string; text the code     *)
(*     rewrites character by character is a sequence of 1-character        *)
(*     strings.                                                            *)
(***************************************************************************)
EXTENDS Naturals, Sequences, FiniteSets, TLC

VARIABLES
    argv,           \* the options on the command line, option name -> value
    cfgFile,        \* component.doc.json: whether it exists, parses, and its parsed object
    customFs,       \* the custom-content files that exist, path -> text
    parseOf,        \* vue-docgen-api's parse, per discovered file: throws or a document
    discovered,     \* what readdir yields under componentsDir, in its order
    pc,             \* where the async main function stands
    config,         \* the global config object
    log,            \* console output, in order
    vueFiles,       \* const vueFiles
    idx,            \* position of the for..of loop in vueFiles
    components,     \* const components
    emitted,        \* history: for each push to components, the file it came from
    extracted,      \* history: the files handed to getComponentDoc, in order
    customContent,  \* const customContent
    customReads,    \* history: number of calls of readCustomContent
    disk,           \* the output directory, path -> content
    written,        \* history: the paths this run wrote, path -> content
    fsFailure,      \* history: the filesystem call of this run that failed, or "none"
    run,            \* 1 for the first run of the tool, 2 for the second
    prev,           \* what the first run left: its pc and what it wrote
    call,           \* a call of a pure function under study: its name and arguments
    result          \* the value that call returned, once it has

vars == <<argv, cfgFile, customFs, parseOf, discovered, pc, config, log, vueFiles, idx,
          components, emitted, extracted, customContent, customReads, disk,
          written, fsFailure, run, prev, call, result>>

\* What no step of the main function assigns: its inputs, and the variables
\* of the specifications of the pure functions.
inputs == <<argv, cfgFile, customFs, parseOf, discovered, call, result>>

\* The variables of a run of the main function.
mainVars == <<argv, cfgFile, customFs, parseOf, discovered, pc, config, log, vueFiles, idx,
              components, emitted, extracted, customContent, customReads, disk,
              written, fsFailure, run, prev>>

(***************************************************************************)
(* Bounds of the model.                                                    *)
(***************************************************************************)
MaxFiles == 3

(***************************************************************************)
(* JavaScript objects.                                                     *)
(***************************************************************************)
Undefined == "<undefined>"

Null == [jsnull |-> TRUE]

\* o[k] in JavaScript: the value, or undefined when o has no such key.
Get(o, k) == IF k \in DOMAIN o THEN o[k] ELSE Undefined

\* !v for the strings and undefined read in this program.
Falsy(v) == v = Undefined \/ v = ""

\* v || d
OrElse(v, d) == IF Falsy(v) THEN d ELSE v

\* Object.assign(target, source), and the spread {...target, ...source}:
\* every own key of source replaces or adds the key in target.
ObjectAssign(target, source) ==
    [k \in DOMAIN target \cup DOMAIN source |->
        IF k \in DOMAIN source THEN source[k] ELSE target[k]]

\* arr.push(x)
Push(arr, x) == Append(arr, x)

(***************************************************************************)
(* Configuration.                                                          *)
(***************************************************************************)
\* const config = {...}
DefaultConfig ==
    [outDir |-> "dist/component-doc",
     componentsDir |-> "src/components",
     docName |-> "Vue Component API Documentation",
     docType |-> "html",
     docDescription |-> "",
     customContent |-> [md |-> "", html |-> ""]]

\* ['html', 'md'].includes(docType)
ValidDocTypeLoose(docType) == docType \in {"html", "md", "xml"}

ValidDocType(docType) == docType \in {"html", "md"}

\* The merge of customContent at lines 41-46, applied to the config that
\* Object.assign has already overwritten with the file's keys.
MergeCustomContent(cfg, customConfig) ==
    IF "customContent" \in DOMAIN customConfig
    THEN [cfg EXCEPT !.customContent =
              ObjectAssign(cfg.customContent, customConfig.customContent)]
    ELSE cfg

\* The docType validation at lines 49-52.
ValidateDocType(cfg) ==
    IF ValidDocType(cfg.docType) THEN cfg ELSE [cfg EXCEPT !.docType = "html"]

\* The config object after loadConfig, from the config before it.  A file
\* that does not parse (or parses to null) throws before config is touched.
LoadedConfig(cfg, file) ==
    IF ~file.exists \/ ~file.parses
    THEN cfg
    ELSE ValidateDocType(MergeCustomContent(ObjectAssign(cfg, file.json), file.json))

\* What loadConfig prints: console.error in the catch, console.warn for an
\* unrecognized docType.
LoadConfigLog(cfg, file) ==
    IF ~file.exists THEN <<>>
    ELSE IF ~file.parses THEN <<[ev |-> "error:loadConfig", arg |-> ""]>>
    ELSE IF ~ValidDocType(ObjectAssign(cfg, file.json).docType)
         THEN <<[ev |-> "warn:docType", arg |-> ObjectAssign(cfg, file.json).docType]>>
         ELSE <<>>

(***************************************************************************)
(* formatType.  A type descriptor is an object with the optional keys      *)
(* name and elements.                                                      *)
(***************************************************************************)
\* arr.join(sep) of an array of strings.
RECURSIVE Join(_, _)
Join(arr, sep) ==
    IF Len(arr) = 0 THEN ""
    ELSE IF Len(arr) = 1 THEN arr[1]
    ELSE arr[1] \o sep \o Join(Tail(arr), sep)

\* The separator of a union: ' \\| ' for Markdown, ' | ' for HTML.
UnionSeparatorSwapped(isMarkdown) == IF isMarkdown THEN " | " ELSE " \\| "

UnionSeparator(isMarkdown) == IF isMarkdown THEN " \\| " ELSE " | "

\* type.name === 'union' && type.elements && type.elements.length
IsExpandedUnion(type) ==
    /\ Get(type, "name") = "union"
    /\ "elements" \in DOMAIN type
    /\ Len(type.elements) > 0

RECURSIVE formatType(_, _)
formatType(type, isMarkdown) ==
    IF IsExpandedUnion(type)
    THEN Join([j \in DOMAIN type.elements |-> formatType(type.elements[j], isMarkdown)],
              UnionSeparator(isMarkdown))
    ELSE OrElse(Get(type, "name"), "")

(***************************************************************************)
(* escapeHtml, on sequences of characters.                                 *)
(***************************************************************************)
\* str.replace(/c/g, by) for a single character c.
RECURSIVE ReplaceAll(_, _, _)
ReplaceAll(str, c, by) ==
    IF str = <<>> THEN <<>>
    ELSE (IF Head(str) = c THEN by ELSE <<Head(str)>>) \o ReplaceAll(Tail(str), c, by)

EntAmp == <<"&", "a", "m", "p", ";">>
EntLt == <<"&", "l", "t", ";">>
EntGt == <<"&", "g", "t", ";">>
EntQuot == <<"&", "q", "u", "o", "t", ";">>
EntApos == <<"&", "#", "0", "3", "9", ";">>

\* A faulty variant of escapeHtml: the ampersand is replaced last, so the
\* ampersands of the entities already inserted are escaped again.
escapeHtmlAmpLast(str) ==
    ReplaceAll(ReplaceAll(ReplaceAll(ReplaceAll(ReplaceAll(str,
        "<", EntLt), ">", EntGt), "\"", EntQuot), "'", EntApos), "&", EntAmp)

escapeHtml(str) ==
    ReplaceAll(ReplaceAll(ReplaceAll(ReplaceAll(ReplaceAll(str,
        "&", EntAmp), "<", EntLt), ">", EntGt), "\"", EntQuot), "'", EntApos)

(***************************************************************************)
(* The page of one component.  A page is kept as the data the template     *)
(* is filled with (the fixed markup around it is the same on every page):  *)
(* kind, format, <title>, heading, description, custom block, examples,    *)
(* prop rows and index entries.  A section the code leaves out when its    *)
(* data is falsy or empty is the empty string or the empty sequence.       *)
(***************************************************************************)
\* example.content || ''
ExampleContent(example) ==
    IF "content" \in DOMAIN example THEN example.content ELSE <<>>

\* docData.tags && docData.tags.examples, or no examples.
ExamplesOf(docData) ==
    IF "tags" \in DOMAIN docData /\ "examples" \in DOMAIN docData.tags
    THEN docData.tags.examples ELSE <<>>

\* Object.values(docData.props), or no props.
PropsOf(docData) == IF "props" \in DOMAIN docData THEN docData.props ELSE <<>>

\* example.title || `<default title> ${index + 1}`
ExampleTitle(example, index) ==
    OrElse(Get(example, "title"), "Example " \o ToString(index + 1))

\* The grave accent, written out: the character cannot stand in a string here.
Backtick == "[grave]"

\* The default-value cell of a prop row in Markdown.
MarkdownDefault(prop) ==
    IF "defaultValue" \in DOMAIN prop
    THEN <<Backtick>> \o ReplaceAll(prop.defaultValue.value, Backtick, <<"\\", Backtick>>)
         \o <<Backtick>>
    ELSE <<"-">>

\* The default-value cell of a prop row in HTML.
HtmlDefault(prop) ==
    IF "defaultValue" \in DOMAIN prop THEN prop.defaultValue.value ELSE <<"-">>

generateComponentMarkdown(docData) ==
    [kind |-> "page",
     fmt |-> "md",
     title |-> "",
     heading |-> Get(docData, "displayName"),
     description |-> OrElse(Get(docData, "description"), ""),
     custom |-> "",
     examples |-> [j \in DOMAIN ExamplesOf(docData) |->
                      [title |-> ExampleTitle(ExamplesOf(docData)[j], j - 1),
                       code |-> ExampleContent(ExamplesOf(docData)[j])]],
     props |-> [j \in DOMAIN PropsOf(docData) |->
                   [name |-> PropsOf(docData)[j].name,
                    type |-> Backtick \o formatType(PropsOf(docData)[j].type, TRUE) \o Backtick,
                    default |-> MarkdownDefault(PropsOf(docData)[j]),
                    description |-> OrElse(Get(PropsOf(docData)[j], "description"), "-")]],
     entries |-> <<>>]

generateComponentHtml(docData, docName, componentName) ==
    [kind |-> "page",
     fmt |-> "html",
     title |-> componentName \o " - " \o docName,
     heading |-> Get(docData, "displayName"),
     description |-> OrElse(Get(docData, "description"), ""),
     custom |-> "",
     examples |-> [j \in DOMAIN ExamplesOf(docData) |->
                      [title |-> ExampleTitle(ExamplesOf(docData)[j], j - 1),
                       code |-> escapeHtml(ExampleContent(ExamplesOf(docData)[j]))]],
     props |-> [j \in DOMAIN PropsOf(docData) |->
                   [name |-> PropsOf(docData)[j].name,
                    type |-> formatType(PropsOf(docData)[j].type, FALSE),
                    default |-> HtmlDefault(PropsOf(docData)[j]),
                    description |-> OrElse(Get(PropsOf(docData)[j], "description"), "-")]],
     entries |-> <<>>]

(***************************************************************************)
(* The index page.                                                         *)
(***************************************************************************)
\* A faulty variant of IndexEntries: the list is reversed before rendering.
IndexEntriesReversed(comps, ext) ==
    [j \in DOMAIN comps |->
        [name |-> comps[Len(comps) + 1 - j].name,
         href |-> comps[Len(comps) + 1 - j].name \o "." \o ext,
         description |-> comps[Len(comps) + 1 - j].description]]

\* components.forEach / components.map: one entry per element, in order.
IndexEntries(comps, ext) ==
    [j \in DOMAIN comps |->
        [name |-> comps[j].name,
         href |-> comps[j].name \o "." \o ext,
         description |-> comps[j].description]]

generateIndex(cfg, comps, custom) ==
    [kind |-> "index",
     fmt |-> IF cfg.docType = "md" THEN "md" ELSE "html",
     title |-> cfg.docName,
     heading |-> cfg.docName,
     description |-> cfg.docDescription,
     custom |-> custom,
     examples |-> <<>>,
     props |-> <<>>,
     entries |-> IndexEntries(comps, IF cfg.docType = "md" THEN "md" ELSE "html")]

(***************************************************************************)
(* Files.                                                                  *)
(***************************************************************************)
\* path.resolve(dir, name)
PathResolve(dir, name) == dir \o "/" \o name

\* A faulty variant of WriteFile: the text is appended to what the file holds.
WriteFileAppend(fs, path, content) ==
    [p \in DOMAIN fs \cup {path} |->
        IF p = path
        THEN (IF path \in DOMAIN fs
              THEN [kind |-> "appended", first |-> fs[path], second |-> content]
              ELSE content)
        ELSE fs[p]]

\* fsPromises.writeFile(path, content, 'utf8') when it succeeds: the file
\* holds content, whatever it held.
WriteFile(fs, path, content) ==
    [p \in DOMAIN fs \cup {path} |-> IF p = path THEN content ELSE fs[p]]

\* A faulty variant of getComponentDoc: no try/catch, the failure of parse
\* goes on to the caller.
getComponentDocNoCatch(parse, filePath) ==
    IF parse[filePath].throws
    THEN [threw |-> TRUE, value |-> Null]
    ELSE [threw |-> FALSE, value |-> parse[filePath].doc]

\* getComponentDoc: what it returns (value) and whether it throws; it
\* catches every failure of parse and returns null.
getComponentDoc(parse, filePath) ==
    IF parse[filePath].throws
    THEN [threw |-> FALSE, value |-> Null]
    ELSE [threw |-> FALSE, value |-> parse[filePath].doc]

\* A faulty variant of IsInvalidDoc: only a missing document is skipped.
IsInvalidDocNullOnly(docData) == docData = Null

\* !docData || !docData.displayName
IsInvalidDoc(docData) == docData = Null \/ Falsy(Get(docData, "displayName"))

\* The path of the page of a component.
OutputFile(cfg, componentName) ==
    PathResolve(cfg.outDir,
                componentName \o (IF cfg.docType = "md" THEN ".md" ELSE ".html"))

\* The content of the page of a component.
PageContent(cfg, docData) ==
    IF cfg.docType = "md"
    THEN generateComponentMarkdown(docData)
    ELSE generateComponentHtml(docData, cfg.docName, Get(docData, "displayName"))

\* The path of the index page.
IndexPath(cfg) ==
    PathResolve(cfg.outDir, IF cfg.docType = "md" THEN "index.md" ELSE "index.html")

\* readCustomContent: the text it returns.
readCustomContent(cfg, fs) ==
    IF Falsy(Get(cfg.customContent, cfg.docType)) THEN ""
    ELSE IF cfg.customContent[cfg.docType] \in DOMAIN fs
         THEN fs[cfg.customContent[cfg.docType]]
         ELSE ""

\* readCustomContent: what it prints.
readCustomContentLog(cfg, fs) ==
    IF ~Falsy(Get(cfg.customContent, cfg.docType))
       /\ cfg.customContent[cfg.docType] \notin DOMAIN fs
    THEN <<[ev |-> "custom:missing", arg |-> cfg.customContent[cfg.docType]]>>
    ELSE <<>>

(***************************************************************************)
(* The inputs of a run.                                                    *)
(***************************************************************************)
\* The k-th file readdir yields.
FilePath(k) == "src/components/c" \o ToString(k) \o ".vue"

DocButton ==
    [displayName |-> "Button",
     description |-> "A button",
     tags |-> [examples |-> <<[content |-> <<"<", "b", ">", "&", "'">>]>>],
     props |-> <<[name |-> "variant",
                  type |-> [name |-> "union",
                            elements |-> <<[name |-> "primary"], [name |-> "secondary"]>>],
                  defaultValue |-> [value |-> <<"p", Backtick>>]]>>]

DocCard == [displayName |-> "Card"]

DocButtonAgain == [displayName |-> "Button", description |-> "Another button"]

DocAnonymous == [description |-> "No name"]

DocEmptyName == [displayName |-> "", description |-> "Empty name"]

\* A component whose display name is that of the index page.
DocIndex == [displayName |-> "index", description |-> "A component named index"]

\* What parse does for one file: it throws, or it returns a document.
ParseOutcomes ==
    {[throws |-> TRUE, doc |-> Null]}
    \cup {[throws |-> FALSE, doc |-> d] :
             d \in {DocButton, DocCard, DocButtonAgain, DocAnonymous, DocEmptyName,
                    DocIndex}}

\* The parsed objects component.doc.json may hold.
ConfigObjects ==
    {ObjectAssign(a, b) :
        a \in {<<>>, [docType |-> "md"], [docType |-> "xml"]},
        b \in {<<>>,
               [customContent |-> [md |-> "docs/custom.md"]],
               [customContent |-> [html |-> "docs/custom.html"]],
               [customContent |-> [md |-> "docs/custom.md", html |-> "docs/custom.html"]]}}

ConfigFiles ==
    {[exists |-> FALSE, parses |-> FALSE, json |-> <<>>],
     [exists |-> TRUE, parses |-> FALSE, json |-> <<>>]}
    \cup {[exists |-> TRUE, parses |-> TRUE, json |-> o] : o \in ConfigObjects}

\* The custom-content files on disk: none, or both.
CustomFiles ==
    {<<>>,
     [p \in {"docs/custom.md", "docs/custom.html"} |-> "<p>custom " \o p \o "</p>"]}

\* The record a run leaves of itself when the tool is started again.
NoRun == [pc |-> "none", written |-> <<>>, emptied |-> FALSE]

NoCall == [fn |-> "none"]

Pending == [done |-> FALSE]

Returned(v) == [done |-> TRUE, value |-> v]

\* A command line without options.
NoOptions == <<>>

\* The command lines of the README: no option, each option alone, all five.
CommandLines ==
    {NoOptions,
     [docType |-> "md"],
     [docName |-> "My docs"],
     [docDescription |-> "About my docs"],
     [componentsDir |-> "lib/components"],
     [outDir |-> "out/docs"],
     [docType |-> "md", docName |-> "My docs", docDescription |-> "About my docs",
      componentsDir |-> "lib/components", outDir |-> "out/docs"]}

\* The start of a run given one of commandLines, over at most `most` files.
InitOf(commandLines, most) ==
    /\ argv \in commandLines
    /\ call = NoCall
    /\ result = Pending
    /\ cfgFile \in ConfigFiles
    /\ customFs \in CustomFiles
    /\ \E n \in 0..most :
          /\ discovered = [k \in 1..n |-> FilePath(k)]
          /\ parseOf \in [{FilePath(k) : k \in 1..n} -> ParseOutcomes]
    /\ pc = "loadConfig"
    /\ config = DefaultConfig
    /\ log = <<>>
    /\ vueFiles = <<>>
    /\ idx = 0
    /\ components = <<>>
    /\ emitted = <<>>
    /\ extracted = <<>>
    /\ customContent = ""
    /\ customReads = 0
    /\ disk = <<>>
    /\ written = <<>>
    /\ fsFailure = "none"
    /\ run = 1
    /\ prev = NoRun

Init == InitOf({NoOptions}, MaxFiles)

(***************************************************************************)
(* The steps of the async main function.                                   *)
(***************************************************************************)
Line(ev, arg) == [ev |-> ev, arg |-> arg]

\* An exception leaves the async function: the promise rejects and nothing
\* after the throwing await runs.
Throw(what) ==
    /\ pc' = "aborted"
    /\ log' = Append(log, Line("fatal", what))

\* 1. loadConfig()
LoadConfig ==
    /\ pc = "loadConfig"
    /\ config' = LoadedConfig(config, cfgFile)
    /\ log' = log \o LoadConfigLog(config, cfgFile)
    /\ pc' = "ensureDir"
    /\ UNCHANGED <<inputs, vueFiles, idx, components, emitted, extracted,
                   customContent, customReads, disk, written, fsFailure, run, prev>>

\* await ensureDir(config.outDir): mkdir may fail.
EnsureDir ==
    /\ pc = "ensureDir"
    /\ \E ok \in BOOLEAN :
          IF ok THEN pc' = "findVueFiles" /\ UNCHANGED <<log, fsFailure>>
          ELSE Throw("mkdir") /\ fsFailure' = "mkdir"
    /\ UNCHANGED <<inputs, config, vueFiles, idx, components, emitted, extracted,
                   customContent, customReads, disk, written, run, prev>>

\* A faulty variant of NoneFound: the early return is never taken.
NoneFoundNever(files) == FALSE

\* vueFiles.length === 0
NoneFound(files) == Len(files) = 0

\* 2. findVueFiles(componentsDir), then the early return when nothing is
\* found (a for..of over no files would run no pass).
FindVueFiles ==
    /\ pc = "findVueFiles"
    /\ \E ok \in BOOLEAN :
          IF ~ok
          THEN Throw("readdir") /\ fsFailure' = "readdir" /\ UNCHANGED <<vueFiles, idx>>
          ELSE /\ vueFiles' = discovered
               /\ fsFailure' = fsFailure
               /\ IF NoneFound(discovered)
                  THEN /\ pc' = "returned"
                       /\ log' = Append(log, Line("noneFound", ""))
                       /\ idx' = idx
                  ELSE /\ pc' = IF Len(discovered) = 0 THEN "readCustomContent" ELSE "loop"
                       /\ log' = Append(log, Line("found", ToString(Len(discovered))))
                       /\ idx' = 1
    /\ UNCHANGED <<inputs, config, components, emitted, extracted,
                   customContent, customReads, disk, written, run, prev>>

\* Where the for..of loop goes after the file at position idx.
AfterFile == IF idx = Len(vueFiles) THEN "readCustomContent" ELSE "loop"

\* A faulty variant of WritePageFails: the failure is caught and logged, and
\* the loop goes on.
WritePageFailsCaught ==
    /\ log' = Append(log, Line("error", "writeFile"))
    /\ idx' = idx + 1
    /\ pc' = AfterFile
    /\ UNCHANGED <<disk, written>>

\* await fsPromises.writeFile(outputFile, ...) rejects in the loop: nothing
\* catches it.
WritePageFails ==
    /\ Throw("writeFile")
    /\ UNCHANGED <<idx, disk, written>>

\* 3. One pass of the loop body, for the file at position idx.
ProcessFile ==
    /\ pc = "loop"
    /\ LET file == vueFiles[idx]
           got == getComponentDoc(parseOf, file)
           docData == got.value
           componentName == Get(docData, "displayName")
           outputFile == OutputFile(config, componentName)
       IN /\ extracted' = Append(extracted, file)
          /\ IF got.threw
             THEN /\ Throw("getComponentDoc")
                  /\ UNCHANGED <<idx, components, emitted, disk, written, fsFailure>>
             ELSE IF IsInvalidDoc(docData)
             THEN /\ log' = Append(log, Line("skip", file))
                  /\ idx' = idx + 1
                  /\ pc' = AfterFile
                  /\ UNCHANGED <<components, emitted, disk, written, fsFailure>>
             ELSE /\ components' = Push(components,
                                        [name |-> componentName,
                                         description |-> OrElse(Get(docData, "description"), "")])
                  /\ emitted' = Append(emitted,
                                       [file |-> file, name |-> componentName,
                                        path |-> outputFile])
                  /\ \E ok \in BOOLEAN :
                        IF ok
                        THEN /\ disk' = WriteFile(disk, outputFile, PageContent(config, docData))
                             /\ written' = WriteFile(written, outputFile,
                                                     PageContent(config, docData))
                             /\ log' = Append(log, Line("generated", outputFile))
                             /\ idx' = idx + 1
                             /\ pc' = AfterFile
                             /\ fsFailure' = fsFailure
                        ELSE /\ WritePageFails
                             /\ fsFailure' = "writeFile:page"
    /\ UNCHANGED <<inputs, config, vueFiles, customContent, customReads, run, prev>>

\* const customContent = await readCustomContent()
ReadCustomContent ==
    /\ pc = "readCustomContent"
    /\ customContent' = readCustomContent(config, customFs)
    /\ customReads' = customReads + 1
    /\ log' = log \o readCustomContentLog(config, customFs)
    /\ pc' = "writeIndex"
    /\ UNCHANGED <<inputs, config, vueFiles, idx, components, emitted, extracted,
                   disk, written, fsFailure, run, prev>>

\* The index page is rendered and written; then the completion message.
WriteIndex ==
    /\ pc = "writeIndex"
    /\ \E ok \in BOOLEAN :
          IF ok
          THEN /\ disk' = WriteFile(disk, IndexPath(config),
                                    generateIndex(config, components, customContent))
               /\ written' = WriteFile(written, IndexPath(config),
                                       generateIndex(config, components, customContent))
               /\ log' = log \o <<Line("index", IndexPath(config)), Line("complete", "")>>
               /\ pc' = "done"
               /\ fsFailure' = fsFailure
          ELSE /\ Throw("writeFile")
               /\ fsFailure' = "writeFile:index"
               /\ UNCHANGED <<disk, written>>
    /\ UNCHANGED <<inputs, config, vueFiles, idx, components, emitted, extracted,
                   customContent, customReads, run, prev>>

Next ==
    \/ LoadConfig
    \/ EnsureDir
    \/ FindVueFiles
    \/ ProcessFile
    \/ ReadCustomContent
    \/ WriteIndex

Spec == Init /\ [][Next]_vars

\* Runs started with the command lines of the README, over at most one file.
InitCli == InitOf(CommandLines, 1)

SpecCli == InitCli /\ [][Next]_vars

(***************************************************************************)
(* The tool run a second time, as a new process: the module is evaluated   *)
(* again, so config is the default object again; only the files remain.    *)
(* The output directory is left as the first run left it, or emptied.      *)
(* The second run follows a first run that ended normally.                 *)
(***************************************************************************)
Finished == pc \in {"done", "returned"}

Restart ==
    /\ run = 1
    /\ Finished
    /\ run' = 2
    /\ \E emptied \in BOOLEAN :
          /\ disk' = IF emptied THEN <<>> ELSE disk
          /\ prev' = [pc |-> pc, written |-> written, emptied |-> emptied]
    /\ pc' = "loadConfig"
    /\ config' = DefaultConfig
    /\ log' = <<>>
    /\ vueFiles' = <<>>
    /\ idx' = 0
    /\ components' = <<>>
    /\ emitted' = <<>>
    /\ extracted' = <<>>
    /\ customContent' = ""
    /\ customReads' = 0
    /\ written' = <<>>
    /\ fsFailure' = "none"
    /\ UNCHANGED inputs

NextRerun == Next \/ Restart

SpecRerun == Init /\ [][NextRerun]_vars

(***************************************************************************)
(* formatType on its own: every descriptor of a bounded family, in both    *)
(* modes.                                                                  *)
(***************************************************************************)
MaxElements == 2

SeqsUpTo(S, n) == UNION {[1..k -> S] : k \in 1..n}

Union(es) == [name |-> "union", elements |-> es]

\* Descriptors that are not expanded: named, unnamed, a union without elements,
\* a union with an empty list of elements, and a named type that has elements.
LeafTypes ==
    {[name |-> "string"], <<>>, [name |-> "union"], Union(<<>>),
     [name |-> "Array", elements |-> <<[name |-> "number"]>>]}

FlatUnions == {Union(es) : es \in SeqsUpTo(LeafTypes, MaxElements)}

InnerUnions == {Union(<<a, b>>) : a, b \in {[name |-> "number"], [name |-> "union"]}}

NestedUnions == {Union(es) : es \in SeqsUpTo(LeafTypes \cup InnerUnions, MaxElements)}

DeepUnions == {Union(<<[name |-> "boolean"], Union(<<u, <<>> >>)>>) : u \in InnerUnions}

TypeDescriptors == LeafTypes \cup FlatUnions \cup NestedUnions \cup DeepUnions

\* mainVars at rest, for the specifications of the pure functions.
MainAtRest ==
    /\ argv = NoOptions
    /\ cfgFile = [exists |-> FALSE, parses |-> FALSE, json |-> <<>>]
    /\ customFs = <<>>
    /\ discovered = <<>>
    /\ parseOf = <<>>
    /\ pc = "loadConfig"
    /\ config = DefaultConfig
    /\ log = <<>>
    /\ vueFiles = <<>>
    /\ idx = 0
    /\ components = <<>>
    /\ emitted = <<>>
    /\ extracted = <<>>
    /\ customContent = ""
    /\ customReads = 0
    /\ disk = <<>>
    /\ written = <<>>
    /\ fsFailure = "none"
    /\ run = 1
    /\ prev = NoRun

InitFormat ==
    /\ MainAtRest
    /\ call \in {[fn |-> "formatType", type |-> t, isMarkdown |-> m] :
                    t \in TypeDescriptors, m \in BOOLEAN}
    /\ result = Pending

CallFormatType ==
    /\ call.fn = "formatType"
    /\ result = Pending
    /\ result' = Returned(formatType(call.type, call.isMarkdown))
    /\ UNCHANGED <<mainVars, call>>

NextFormat == CallFormatType

SpecFormat == InitFormat /\ [][NextFormat]_vars

(***************************************************************************)
(* The HTML page of a component with one example: every example text of a  *)
(* bounded family.                                                         *)
(***************************************************************************)
MaxTokens == 3

\* The pieces example texts are made of: the five special characters, a
\* plain character, and the tails of entities (so that a text may already
\* hold what looks like an entity).
Tokens ==
    {<<"&">>, <<"<">>, <<">">>, <<"\"">>, <<"'">>, <<"a">>,
     <<"a", "m", "p", ";">>, <<"l", "t", ";">>, <<"#", "0", "3", "9", ";">>}

RECURSIVE Concat(_)
Concat(ss) == IF ss = <<>> THEN <<>> ELSE Head(ss) \o Concat(Tail(ss))

ExampleTexts == {<<>>} \cup {Concat(ts) : ts \in SeqsUpTo(Tokens, MaxTokens)}

\* Examples with a text, and one without the key content.
Examples == {[content |-> t] : t \in ExampleTexts} \cup {[title |-> "No content"]}

InitEscape ==
    /\ MainAtRest
    /\ call \in {[fn |-> "generateComponentHtml",
                   docData |-> [displayName |-> "Demo", tags |-> [examples |-> <<e>>]]] :
                    e \in Examples}
    /\ result = Pending

CallGenerateComponentHtml ==
    /\ call.fn = "generateComponentHtml"
    /\ result = Pending
    /\ result' = Returned(generateComponentHtml(call.docData, DefaultConfig.docName,
                                                call.docData.displayName))
    /\ UNCHANGED <<mainVars, call>>

NextEscape == CallGenerateComponentHtml

SpecEscape == InitEscape /\ [][NextEscape]_vars

(***************************************************************************)
(* Properties of a run.  They are stated over the inputs and the history   *)
(* variables, not over the operators the steps are written with.           *)
(***************************************************************************)
Last(seq) == seq[Len(seq)]

\* The extraction of file f yields no document, or one without a display name.
NoDisplayName(f) ==
    \/ parseOf[f].throws
    \/ "displayName" \notin DOMAIN parseOf[f].doc
    \/ parseOf[f].doc.displayName = ""

\* The display names of the files of a list that are not skipped, in order.
RECURSIVE NamesOf(_)
NamesOf(files) ==
    IF files = <<>> THEN <<>>
    ELSE (IF NoDisplayName(Head(files)) THEN <<>>
          ELSE <<parseOf[Head(files)].doc.displayName>>) \o NamesOf(Tail(files))

\* The extension the configuration file asks for, when it asks for a recognized one.
AskedMarkdown ==
    cfgFile.exists /\ cfgFile.parses /\ Get(cfgFile.json, "docType") = "md"

AskedXml ==
    cfgFile.exists /\ cfgFile.parses /\ Get(cfgFile.json, "docType") = "xml"

Ext == IF AskedMarkdown THEN ".md" ELSE ".html"

PagePathOf(name) == "dist/component-doc/" \o name \o Ext

IndexPathExpected == "dist/component-doc/index" \o Ext

HasLine(ev) == \E j \in DOMAIN log : log[j].ev = ev

\* C1: a discovered file whose extraction gave no document, or a document
\* without a display name, gets no page and no index entry: every entry of
\* components and every page written comes from a file that has a display
\* name, and a skipped file is logged as skipped.
C1_SkippedFileLeavesNothing ==
    /\ Len(components) = Len(emitted)
    /\ \A j \in DOMAIN emitted :
          /\ ~NoDisplayName(emitted[j].file)
          /\ components[j].name = parseOf[emitted[j].file].doc.displayName
          /\ emitted[j].path = PagePathOf(components[j].name)
    /\ DOMAIN written \subseteq {emitted[j].path : j \in DOMAIN emitted} \cup {IndexPathExpected}
    /\ \A j \in DOMAIN extracted :
          NoDisplayName(extracted[j]) =>
              /\ \A k \in DOMAIN emitted : emitted[k].file # extracted[j]
              /\ \E k \in DOMAIN log : log[k] = [ev |-> "skip", arg |-> extracted[j]]

\* C1 happens: a run in Markdown finished, in which a file without a display
\* name stood between two files that got their pages.
C1_Witness ==
    /\ pc = "done"
    /\ AskedMarkdown
    /\ Len(extracted) = 3
    /\ ~parseOf[extracted[2]].throws /\ NoDisplayName(extracted[2])
    /\ Len(emitted) = 2

\* C2: a failure of the extraction of one file does not abort the run: the
\* run aborts only when a filesystem call failed, and a run that reaches its
\* end has written the page of every file that has a display name, holds an
\* index entry for it, has written the index page and printed the completion
\* message.
C2_ExtractionFailureIsPerFile ==
    /\ pc = "aborted" => fsFailure # "none"
    /\ fsFailure = "none" /\ Len(extracted) > 0 =>
          pc \in {"loop", "readCustomContent", "writeIndex", "done"}
    /\ pc = "done" =>
          /\ extracted = vueFiles
          /\ \A j \in DOMAIN vueFiles :
                ~NoDisplayName(vueFiles[j]) =>
                   \E k \in DOMAIN emitted :
                      /\ emitted[k].file = vueFiles[j]
                      /\ emitted[k].path \in DOMAIN written
                      /\ components[k].name = parseOf[vueFiles[j]].doc.displayName
                      /\ \E m \in DOMAIN written[IndexPathExpected].entries :
                            written[IndexPathExpected].entries[m].name = components[k].name
          /\ IndexPathExpected \in DOMAIN written
          /\ Last(log) = [ev |-> "complete", arg |-> ""]

\* C2 happens: a run finished whose first file threw during extraction and
\* whose second file got its page.
C2_Witness ==
    /\ pc = "done"
    /\ Len(vueFiles) >= 2
    /\ parseOf[vueFiles[1]].throws
    /\ ~NoDisplayName(vueFiles[2])
    /\ PagePathOf(parseOf[vueFiles[2]].doc.displayName) \in DOMAIN written

\* C3: the index lists the components in the order they were processed: the
\* names in components are those of the files extracted so far that were not
\* skipped, in discovery order, and the entries of the index page written are
\* the same sequence.
C3_IndexInProcessingOrder ==
    /\ [j \in DOMAIN components |-> components[j].name] = NamesOf(extracted)
    /\ pc = "done" =>
          [j \in DOMAIN written[IndexPathExpected].entries |->
               written[IndexPathExpected].entries[j].name] = NamesOf(vueFiles)

\* C3 happens: an index was written with two entries of different names, the
\* later in the alphabet first, and a skipped file between them.
C3_Witness ==
    /\ pc = "done"
    /\ Len(vueFiles) = 3
    /\ NoDisplayName(vueFiles[2])
    /\ NamesOf(vueFiles) = <<"Card", "Button">>

\* C4: when the configuration file sets docType to a value that is not
\* recognized, loadConfig leaves docType = html and prints a warning, the run
\* goes on, and every page and the index are written as .html; in every state
\* after loadConfig docType is html or md.
C4_InvalidDocTypeFallsBackToHtml ==
    pc # "loadConfig" =>
        /\ config.docType \in {"html", "md"}
        /\ AskedXml =>
              /\ config.docType = "html"
              /\ log[1] = [ev |-> "warn:docType", arg |-> "xml"]
              /\ ~HasLine("error:loadConfig")
              /\ pc = "aborted" => fsFailure # "none"
              /\ \A j \in DOMAIN emitted :
                    emitted[j].path = "dist/component-doc/" \o emitted[j].name \o ".html"
              /\ \A q \in DOMAIN written : written[q].fmt = "html"
              /\ pc = "done" => "dist/component-doc/index.html" \in DOMAIN written

\* C4 happens: a run configured with docType xml finished and wrote a page
\* and the index.
C4_Witness ==
    /\ AskedXml
    /\ pc = "done"
    /\ "dist/component-doc/Button.html" \in DOMAIN written
    /\ "dist/component-doc/index.html" \in DOMAIN written

\* C5: customContent is merged key by key: after loadConfig, a key of
\* customContent the configuration file sets holds the file's value and a key
\* it does not set holds the default, the empty string.
C5_CustomContentMergedKeyByKey ==
    pc # "loadConfig" /\ cfgFile.exists /\ cfgFile.parses
    /\ "customContent" \in DOMAIN cfgFile.json =>
        \A k \in {"md", "html"} :
            Get(config.customContent, k) =
                IF k \in DOMAIN cfgFile.json.customContent
                THEN cfgFile.json.customContent[k] ELSE ""

\* C6: a failure of the write of a component page is fatal: the run is
\* aborted and takes no further step, no file after the one whose write
\* failed has been extracted, nothing was written for that file or a later
\* one, custom content was not read, the index page was not written and the
\* completion message was not printed.
C6_PageWriteFailureIsFatal ==
    fsFailure = "writeFile:page" =>
        /\ pc = "aborted"
        /\ ~ENABLED Next
        /\ extracted = SubSeq(vueFiles, 1, Len(extracted))
        /\ Len(emitted) > 0 /\ Last(emitted).file = Last(extracted)
        /\ DOMAIN written \subseteq {emitted[j].path : j \in 1..(Len(emitted) - 1)}
        /\ customReads = 0
        /\ \A q \in DOMAIN written : written[q].kind = "page"
        /\ ~HasLine("index") /\ ~HasLine("complete")

\* C6 happens: the write of the page of the second of three files failed
\* after the page of the first was written.
C6_Witness ==
    /\ fsFailure = "writeFile:page"
    /\ Len(vueFiles) = 3
    /\ Len(extracted) = 2
    /\ Len(emitted) = 2
    /\ emitted[1].path \in DOMAIN written
    /\ emitted[2].path \notin DOMAIN written

\* C7: when discovery finds no file, the run returns early and normally: it
\* is not aborted, takes no further step, has written nothing and has not
\* read custom content.
C7_NothingFoundReturnsEarly ==
    Len(discovered) = 0 /\ fsFailure = "none"
    /\ pc \notin {"loadConfig", "ensureDir", "findVueFiles"} =>
        /\ pc = "returned"
        /\ ~ENABLED Next
        /\ written = <<>> /\ disk = <<>>
        /\ customReads = 0
        /\ Last(log) = [ev |-> "noneFound", arg |-> ""]
        /\ ~HasLine("fatal") /\ ~HasLine("complete")

\* C7 happens: a run configured for Markdown with a custom-content file found
\* no component file and returned.
C7_Witness ==
    /\ pc = "returned"
    /\ Len(discovered) = 0
    /\ AskedMarkdown
    /\ "customContent" \in DOMAIN cfgFile.json
    /\ customFs # <<>>

\* C8: two runs over the same configuration, discovery order and extraction
\* results that both end normally end the same way and write the same paths
\* with the same contents, and the output directory then holds exactly those
\* contents, whether the second run found the directory as the first left it
\* or empty.
C8_SecondRunWritesTheSame ==
    run = 2 /\ pc \in {"done", "returned"} /\ prev.pc \in {"done", "returned"} =>
        /\ pc = prev.pc
        /\ written = prev.written
        /\ DOMAIN disk = DOMAIN written
        /\ \A q \in DOMAIN written : disk[q] = written[q]

\* C8 happens: a second run finished over the files the first run left, two
\* pages and the index.
C8_Witness ==
    /\ run = 2 /\ pc = "done" /\ prev.pc = "done"
    /\ ~prev.emptied
    /\ Cardinality(DOMAIN prev.written) = 3
    /\ Cardinality(DOMAIN written) = 3

(***************************************************************************)
(* Properties of formatType.                                               *)
(***************************************************************************)
\* strs joined by sep, built from the right.
RECURSIVE JoinedBy(_, _)
JoinedBy(strs, sep) ==
    IF Len(strs) = 0 THEN ""
    ELSE IF Len(strs) = 1 THEN strs[1]
    ELSE JoinedBy(SubSeq(strs, 1, Len(strs) - 1), sep) \o sep \o strs[Len(strs)]

\* The elements of a descriptor, none when it has no list of elements.
ElementsOf(type) == IF "elements" \in DOMAIN type THEN type.elements ELSE <<>>

\* The elements of a descriptor, each formatted on its own.
FormattedElements(type, isMarkdown) ==
    [j \in DOMAIN ElementsOf(type) |-> formatType(ElementsOf(type)[j], isMarkdown)]

\* C9, as amended: for a descriptor named union whose list of elements is not
\* empty, formatType returns the formatted elements, in order, joined by
\* ' | ' in HTML mode and by ' \\| ' in Markdown mode; for a descriptor named
\* union whose list of elements is empty or absent it returns the name, union.
C9_UnionJoinsNonEmptyElements ==
    result.done /\ Get(call.type, "name") = "union" =>
        IF Len(ElementsOf(call.type)) > 0
        THEN result.value = JoinedBy(FormattedElements(call.type, call.isMarkdown),
                                     IF call.isMarkdown THEN " \\| " ELSE " | ")
        ELSE result.value = "union"

\* C9 happens: a union of a union and a name was formatted in Markdown mode.
C9_Witness ==
    /\ result.done
    /\ call.isMarkdown
    /\ call.type = Union(<<Union(<<[name |-> "number"], [name |-> "union"]>>),
                           [name |-> "string"]>>)
    /\ result.value = "number \\| union \\| string"

\* C9, as claimed: for every descriptor named union, also one whose list of
\* elements is empty or absent, formatType returns the formatted elements
\* joined by the separator of the mode.
C9_UnionJoinsAnyElements ==
    result.done /\ Get(call.type, "name") = "union" =>
        result.value = JoinedBy(FormattedElements(call.type, call.isMarkdown),
                                IF call.isMarkdown THEN " \\| " ELSE " | ")

(***************************************************************************)
(* Properties of the example code of an HTML page.                         *)
(***************************************************************************)
EntityTable ==
    {[ent |-> <<"&", "a", "m", "p", ";">>, ch |-> "&"],
     [ent |-> <<"&", "l", "t", ";">>, ch |-> "<"],
     [ent |-> <<"&", "g", "t", ";">>, ch |-> ">"],
     [ent |-> <<"&", "q", "u", "o", "t", ";">>, ch |-> "\""],
     [ent |-> <<"&", "#", "0", "3", "9", ";">>, ch |-> "'"]}

IsPrefix(p, str) == Len(p) <= Len(str) /\ SubSeq(str, 1, Len(p)) = p

\* The entities that start str.
EntitiesAt(str) == {e \in EntityTable : IsPrefix(e.ent, str)}

\* str with each entity replaced by its character, in one pass from the left.
RECURSIVE Unescape(_)
Unescape(str) ==
    IF str = <<>> THEN <<>>
    ELSE IF EntitiesAt(str) # {}
    THEN LET e == CHOOSE x \in EntitiesAt(str) : TRUE
         IN <<e.ch>> \o Unescape(SubSeq(str, Len(e.ent) + 1, Len(str)))
    ELSE <<Head(str)>> \o Unescape(Tail(str))

\* The text of the example the page was generated from.
ExampleTextOfCall ==
    IF "content" \in DOMAIN call.docData.tags.examples[1]
    THEN call.docData.tags.examples[1].content ELSE <<>>

\* C10: the text in the code block of an example of an HTML page holds none
\* of < > " ', every & in it starts one of the five entities, and replacing
\* the entities by their characters gives the text of the example.
C10_ExampleCodeIsEscapedOnce ==
    result.done =>
        LET code == result.value.examples[1].code
        IN /\ \A j \in DOMAIN code : code[j] \notin {"<", ">", "\"", "'"}
           /\ \A j \in DOMAIN code :
                 code[j] = "&" => EntitiesAt(SubSeq(code, j, Len(code))) # {}
           /\ Unescape(code) = ExampleTextOfCall

\* C10 happens: an example whose text holds a tag and what already looks like
\* an entity was rendered.
C10_Witness ==
    /\ result.done
    /\ ExampleTextOfCall = <<"<", "&", "l", "t", ";">>
    /\ result.value.examples[1].code =
           <<"&", "l", "t", ";", "&", "a", "m", "p", ";", "l", "t", ";">>

(***************************************************************************)
(* Properties of the command line.                                         *)
(***************************************************************************)
\* C11: an option --docType, --docName, --docDescription, --componentsDir or
\* --outDir populates the configuration field of its name: in a run without
\* a configuration file, after loadConfig every field named on the command
\* line holds the value given there.
C11_OptionsPopulateConfig ==
    pc # "loadConfig" /\ ~cfgFile.exists =>
        \A k \in DOMAIN argv : config[k] = argv[k]

(***************************************************************************)
(* Properties of the links of the index.                                   *)
(***************************************************************************)
\* The position in emitted of the last component processed under a name.
LastNamed(name) ==
    CHOOSE k \in DOMAIN emitted :
        /\ emitted[k].name = name
        /\ \A m \in DOMAIN emitted : m > k => emitted[m].name # name

\* The description the page of the component extracted from file f shows.
DescriptionOf(f) ==
    IF "description" \in DOMAIN parseOf[f].doc THEN parseOf[f].doc.description ELSE ""

\* C12: in a run that wrote the index page, the file every entry links to,
\* name.ext, is in the output directory and was reported written before the
\* index was; components of one display name have one entry each and one
\* file between them, and that file holds the page of the later component.
C12_IndexLinksToWrittenPages ==
    pc = "done" =>
        /\ \A j \in DOMAIN written[IndexPathExpected].entries :
              LET q == "dist/component-doc/" \o written[IndexPathExpected].entries[j].href
              IN /\ q = PagePathOf(written[IndexPathExpected].entries[j].name)
                 /\ q \in DOMAIN disk
                 /\ \E a, b \in DOMAIN log :
                       /\ a < b
                       /\ log[a] = [ev |-> "generated", arg |-> q]
                       /\ log[b].ev = "index"
        /\ Len(written[IndexPathExpected].entries) = Len(emitted)
        /\ \A j \in DOMAIN emitted :
              /\ written[IndexPathExpected].entries[j].name = emitted[j].name
              /\ emitted[j].path = emitted[LastNamed(emitted[j].name)].path
              /\ disk[emitted[j].path].kind = "page"
              /\ disk[emitted[j].path].heading = emitted[j].name
              /\ disk[emitted[j].path].description =
                     DescriptionOf(emitted[LastNamed(emitted[j].name)].file)

====
